---- MODULE Spec2Model ----
(***************************************************************************)
(* Model of src/librustdoc/markdown.rs: the markdown render pipeline       *)
(* (render), the markdown test pipeline (test) and their helpers           *)
(* load_string, load_or_return!, extract_leading_metadata and              *)
(* load_external_files.                                                    *)
(*                                                                         *)
(* Strings are sequences of one-character strings.  A &str slice of a      *)
(* string keeps its byte offset in the string it was cut from.             *)
(***************************************************************************)
EXTENDS Integers, Sequences, FiniteSets, TLC

VARIABLES
    pc,               \* position of the running invocation
    fn,               \* "none", "render" or "test": the function invoked
    input_file,       \* state of the file at the input path
    fs,               \* states of the files that fragment names denote
    matches,          \* the getopts matches handed to render
    test_args,        \* the test_args vector of test
    io_env,           \* what File::create and write! will answer
    out_before,       \* the output file when the invocation started
    out_file,         \* the output file now
    playground_krate, \* the process-wide markdown::playground_krate key
    input_str,        \* local input_str
    in_header,        \* local Option results of the three fragment loads
    before_content,
    after_content,
    metadata,         \* locals bound by extract_leading_metadata
    text,
    css,              \* local css: the stylesheet links
    playground,       \* local playground after unwrap_or
    page,             \* the document that write! put into the output file
    collector,        \* collector.tests of test
    harness,          \* what testing::test_main was handed and reported
    ret,              \* the value returned by the invocation
    log,              \* effects of the invocation, in order
    arg,              \* argument of a helper applied on its own
    result            \* and what the helper returned

vars == <<pc, fn, input_file, fs, matches, test_args, io_env, out_before,
          out_file, playground_krate, input_str, in_header, before_content,
          after_content, metadata, text, css, playground, page, collector,
          harness, ret, log, arg, result, css, playground, page, collector, harness>>

----------------------------------------------------------------------------
(* Bounds *)

\* longest text handed to extract_leading_metadata on its own
MaxLen == 6
\* size of the inputs of one invocation: the characters of the input
\* document and the fragment file names of the three lists, together
MaxInput == 3
\* longest name list handed to load_external_files on its own
MaxNames == 3
\* most caller-supplied test arguments
MaxTestArgs == 2
\* most test cases that find_testable_code collects
MaxTests == 2

----------------------------------------------------------------------------
(* Strings *)

Alphabet == {"%", " ", "a", "\n", "<"}

Texts(n) == UNION {[1..k -> Alphabet] : k \in 0..n}

IsWhitespace(c) == c \in {" ", "\t", "\n", "\r"}

\* A slice of a string: where it starts (byte offset) and its characters.
Slice(off, chars) == [off |-> off, chars |-> chars]

\* index of the first "\n" of s at or after i, Len(s) + 1 when there is none
RECURSIVE NextNewline(_, _)
NextNewline(s, i) ==
    IF i > Len(s) \/ s[i] = "\n" THEN i ELSE NextNewline(s, i + 1)

\* s.lines(): the slices between "\n" terminators; a final "\n" ends the
\* last line and starts no further one.
RECURSIVE LinesFrom(_, _)
LinesFrom(s, i) ==
    IF i > Len(s) THEN <<>>
    ELSE LET e == NextNewline(s, i)
         IN  <<Slice(i - 1, SubSeq(s, i, e - 1))>> \o LinesFrom(s, e + 1)

lines(s) == LinesFrom(s, 1)

\* starts_with that also accepts the empty string
starts_with_or_empty(chars, c) == Len(chars) = 0 \/ chars[1] = c

starts_with(chars, c) == Len(chars) > 0 /\ chars[1] = c

\* s.slice_from(n): the characters from byte offset n on
slice_from(chars, n) == SubSeq(chars, n + 1, Len(chars))

\* trim_left that removes one whitespace character only
trim_left_one(chars) ==
    IF Len(chars) > 0 /\ IsWhitespace(chars[1]) THEN Tail(chars) ELSE chars

RECURSIVE trim_left(_)
trim_left(chars) ==
    IF Len(chars) > 0 /\ IsWhitespace(chars[1])
    THEN trim_left(Tail(chars))
    ELSE chars

\* s.subslice_offset(line): the byte offset of the slice within s
subslice_offset(s, line) == line.off

----------------------------------------------------------------------------
(* extract_leading_metadata *)

\* the loop with the whole text returned when every line is a directive
RECURSIVE ExtractLoop_keep_text(_, _, _, _)
ExtractLoop_keep_text(s, ls, k, md) ==
    IF k > Len(ls)
    THEN [metadata |-> md, text |-> s]
    ELSE LET line == ls[k]
         IN  IF starts_with(line.chars, "%")
             THEN ExtractLoop_keep_text(s, ls, k + 1,
                              Append(md, trim_left(slice_from(line.chars, 1))))
             ELSE LET line_start_byte == subslice_offset(s, line)
                  IN  [metadata |-> md, text |-> slice_from(s, line_start_byte)]

\* the for loop over s.lines(), from the k-th line with `md` accumulated
RECURSIVE ExtractLoop(_, _, _, _)
ExtractLoop(s, ls, k, md) ==
    IF k > Len(ls)
    THEN [metadata |-> md, text |-> <<>>]
    ELSE LET line == ls[k]
         IN  IF starts_with(line.chars, "%")
             THEN ExtractLoop(s, ls, k + 1,
                              Append(md, trim_left(slice_from(line.chars, 1))))
             ELSE LET line_start_byte == subslice_offset(s, line)
                  IN  [metadata |-> md, text |-> slice_from(s, line_start_byte)]

\* the remaining lines re-joined with "\n" instead of sliced by offset
RECURSIVE JoinLines(_, _)
JoinLines(ls, k) ==
    IF k > Len(ls) THEN <<>>
    ELSE IF k = Len(ls) THEN ls[k].chars
    ELSE (ls[k].chars \o <<"\n">>) \o JoinLines(ls, k + 1)

extract_leading_metadata_rejoin(s) ==
    LET ls == lines(s)
        r == ExtractLoop(s, ls, 1, <<>>)
    IN  [metadata |-> r.metadata, text |-> JoinLines(ls, Len(r.metadata) + 1)]

extract_leading_metadata(s) == ExtractLoop(s, lines(s), 1, <<>>)

----------------------------------------------------------------------------
(* Values shared by the specifications *)

None == [some |-> FALSE, val |-> <<>>]
Some(x) == [some |-> TRUE, val |-> x]

NoFile == [kind |-> "none", data |-> <<>>]
Unreadable == [kind |-> "unreadable", data |-> <<>>]
NotUtf8 == [kind |-> "not_utf8", data |-> <<>>]
TextFile(t) == [kind |-> "text", data |-> t]

NoSplit == [metadata |-> <<>>, text |-> <<>>]

----------------------------------------------------------------------------
(* load_string, load_or_return!, load_external_files *)

\* one effect of an invocation: the operation and what it was applied to
Ev(op, what) == <<op, what>>

\* load_string on a file in state f: Err(e), Ok(None) or Ok(Some(s))
load_string(f) ==
    IF f.kind = "unreadable" THEN [tag |-> "Err", val |-> <<>>]
    ELSE IF f.kind = "not_utf8" THEN [tag |-> "OkNone", val |-> <<>>]
    ELSE [tag |-> "OkSome", val |-> f.data]

\* load_or_return! that answers both failures with cant_read
load_or_return_one_code(name, f, cant_read, not_utf8) ==
    LET r == load_string(f)
    IN  IF r.tag = "Err"
        THEN [returned |-> TRUE, ret |-> cant_read, val |-> <<>>,
              log |-> <<Ev("read", name), Ev("stderr", "error reading")>>]
        ELSE IF r.tag = "OkNone"
        THEN [returned |-> TRUE, ret |-> cant_read, val |-> <<>>,
              log |-> <<Ev("read", name), Ev("stderr", "not UTF-8")>>]
        ELSE [returned |-> FALSE, ret |-> cant_read, val |-> r.val,
              log |-> <<Ev("read", name)>>]

\* load_or_return! without its writeln! to stderr
load_or_return_silent(name, f, cant_read, not_utf8) ==
    LET r == load_string(f)
    IN  IF r.tag = "Err"
        THEN [returned |-> TRUE, ret |-> cant_read, val |-> <<>>,
              log |-> <<Ev("read", name)>>]
        ELSE IF r.tag = "OkNone"
        THEN [returned |-> TRUE, ret |-> not_utf8, val |-> <<>>,
              log |-> <<Ev("read", name)>>]
        ELSE [returned |-> FALSE, ret |-> cant_read, val |-> r.val,
              log |-> <<Ev("read", name)>>]

\* load_or_return!(name, cant_read, not_utf8) on a file in state f.
\* returned: the macro made the enclosing function return `ret` (which is
\* meaningful then only); otherwise the macro's value is val.
load_or_return(name, f, cant_read, not_utf8) ==
    LET r == load_string(f)
    IN  IF r.tag = "Err"
        THEN [returned |-> TRUE, ret |-> cant_read, val |-> <<>>,
              log |-> <<Ev("read", name), Ev("stderr", "error reading")>>]
        ELSE IF r.tag = "OkNone"
        THEN [returned |-> TRUE, ret |-> not_utf8, val |-> <<>>,
              log |-> <<Ev("read", name), Ev("stderr", "not UTF-8")>>]
        ELSE [returned |-> FALSE, ret |-> cant_read, val |-> r.val,
              log |-> <<Ev("read", name)>>]

\* the loop of load_external_files without out.push_char('\n')
RECURSIVE LoadLoop_no_newline(_, _, _, _, _)
LoadLoop_no_newline(names, files, i, out, lg) ==
    IF i > Len(names)
    THEN [val |-> Some(out), log |-> lg]
    ELSE LET r == load_or_return(names[i], files[names[i]], None, None)
         IN  IF r.returned
             THEN [val |-> r.ret, log |-> lg \o r.log]
             ELSE LoadLoop_no_newline(names, files, i + 1, out \o r.val,
                                      lg \o r.log)

\* the loop of load_external_files from the i-th name, with `out` built
RECURSIVE LoadLoop(_, _, _, _, _)
LoadLoop(names, files, i, out, lg) ==
    IF i > Len(names)
    THEN [val |-> Some(out), log |-> lg]
    ELSE LET r == load_or_return(names[i], files[names[i]], None, None)
         IN  IF r.returned
             THEN [val |-> r.ret, log |-> lg \o r.log]
             ELSE LoadLoop(names, files, i + 1, (out \o r.val) \o <<"\n">>,
                           lg \o r.log)

\* load_external_files that skips a file it cannot load
RECURSIVE SkipLoop(_, _, _, _, _)
SkipLoop(names, files, i, out, lg) ==
    IF i > Len(names)
    THEN [val |-> Some(out), log |-> lg]
    ELSE LET r == load_or_return(names[i], files[names[i]], None, None)
         IN  IF r.returned
             THEN SkipLoop(names, files, i + 1, out, lg \o r.log)
             ELSE SkipLoop(names, files, i + 1, (out \o r.val) \o <<"\n">>,
                           lg \o r.log)

load_external_files_skip(names, files) == SkipLoop(names, files, 1, <<>>, <<>>)

\* load_external_files(names) with the files in the states `files`: the
\* Option returned and the effects of the call
load_external_files(names, files) == LoadLoop(names, files, 1, <<>>, <<>>)

----------------------------------------------------------------------------
(* Inputs *)

FragNames == {"frag.html", "missing.html", "binary.html"}

\* the fragment files of a render: one readable, one absent, one not UTF-8
DefaultFS ==
    [n \in FragNames |->
        IF n = "frag.html" THEN TextFile(<<"<", "b", ">">>)
        ELSE IF n = "missing.html" THEN Unreadable
        ELSE NotUtf8]

FragContents == {<<>>, <<"a", "b", "c">>, <<"a", "\n">>}

FragStates == {Unreadable, NotUtf8} \cup {TextFile(c) : c \in FragContents}

NameSeqs(n) == UNION {[1..k -> FragNames] : k \in 0..n}

\* the values of --markdown-in-header, --markdown-before-content and
\* --markdown-after-content: at most n names in the three lists together
FragTriples(n) ==
    UNION {[1..l[1] -> FragNames] \X [1..l[2] -> FragNames]
               \X [1..l[3] -> FragNames] :
           l \in {m \in (0..n) \X (0..n) \X (0..n) : m[1] + m[2] + m[3] <= n}}

PlaygroundOpts == {None, Some(<<"u", "&">>)}

\* the file at the input path: unreadable, not UTF-8, or a text of at most
\* n characters
InputFiles(n) == {Unreadable, NotUtf8} \cup {TextFile(t) : t \in Texts(n)}

CssNames == {"a.css", "b.css"}

\* the input file, the fragment lists and the --markdown-css values of a
\* render
RenderInputs ==
    UNION {{<<f, t, cs>> : f \in {Unreadable, NotUtf8}
                                 \cup {TextFile(d) : d \in [1..kc[1] -> Alphabet]},
                           t \in FragTriples(MaxInput - kc[1] - kc[2]),
                           cs \in [1..kc[2] -> CssNames]} :
           kc \in {m \in (0..MaxInput) \X (0..MaxInput) :
                      m[1] + m[2] <= MaxInput}}

NoOut == [exists |-> FALSE, content |-> "none"]
OutStates == {NoOut, [exists |-> TRUE, content |-> "old"]}

\* what File::create and write! answered: "untried", "ok" or "err"
NoEnv == [create |-> "untried", write |-> "untried"]

NoMatches == [playground |-> None, in_header |-> <<>>,
              before_content |-> <<>>, after_content |-> <<>>, css |-> <<>>]

\* the document of the template, slot by slot; nothing written yet
NoPage == [title |-> <<>>, css |-> <<>>, in_header |-> <<>>,
           before_content |-> <<>>, h1 |-> <<>>, text |-> <<>>,
           playground |-> <<>>, after_content |-> <<>>]

\* testing::test_main not called
NoHarness == [called |-> FALSE, args |-> <<>>, tests |-> <<>>,
              report |-> "none"]

Min2(a, b) == IF a <= b THEN a ELSE b

TestNames == {"t1", "t2"}
\* what find_testable_code may collect from a document
TestCaseSeqs == UNION {[1..k -> TestNames] : k \in 0..MaxTests}

TestArgTokens == {"-q", "foo"}
TestArgSeqs == UNION {[1..k -> TestArgTokens] : k \in 0..MaxTestArgs}

\* the input file and the harness arguments of a test
TestInputs ==
    UNION {{<<f, ta>> : f \in InputFiles(MaxInput - k),
                        ta \in [1..k -> TestArgTokens]} :
           k \in 0..Min2(MaxTestArgs, MaxInput)}

----------------------------------------------------------------------------
(* State outside an invocation *)

\* nothing is running: every per-invocation variable is at rest
AtRest ==
    /\ fn = "none"
    /\ input_file = NoFile
    /\ matches = NoMatches
    /\ test_args = <<>>
    /\ io_env = NoEnv
    /\ out_before = NoOut
    /\ out_file = NoOut
    /\ input_str = <<>>
    /\ in_header = None
    /\ before_content = None
    /\ after_content = None
    /\ metadata = <<>>
    /\ text = <<>>
    /\ css = <<>>
    /\ playground = <<>>
    /\ page = NoPage
    /\ collector = <<>>
    /\ harness = NoHarness
    /\ ret = -1
    /\ log = <<>>

pipeline_vars == <<fn, input_file, matches, test_args, io_env, out_before,
                   out_file, playground_krate, input_str, in_header,
                   before_content, after_content, metadata, text, css,
                   playground, page, collector, harness, ret, log>>

----------------------------------------------------------------------------
(* extract_leading_metadata applied on its own to every bounded text *)

SplitInit ==
    /\ pc = "split_call"
    /\ arg \in Texts(MaxLen)
    /\ result = NoSplit
    /\ fs = DefaultFS
    /\ playground_krate = "unset"
    /\ AtRest

SplitApply ==
    /\ pc = "split_call"
    /\ result' = extract_leading_metadata(arg)
    /\ pc' = "split_done"
    /\ UNCHANGED <<pipeline_vars, fs, arg>>

SplitNext == SplitApply

SplitSpec == SplitInit /\ [][SplitNext]_vars

----------------------------------------------------------------------------
(* load_external_files applied on its own to every bounded name list *)

LoadInit ==
    /\ pc = "load_call"
    /\ arg \in NameSeqs(MaxNames)
    /\ fs \in [FragNames -> FragStates]
    /\ result = [val |-> None, log |-> <<>>]
    /\ playground_krate = "unset"
    /\ AtRest

LoadApply ==
    /\ pc = "load_call"
    /\ result' = load_external_files(arg, fs)
    /\ pc' = "load_done"
    /\ UNCHANGED <<pipeline_vars, fs, arg>>

LoadNext == LoadApply

LoadSpec == LoadInit /\ [][LoadNext]_vars

----------------------------------------------------------------------------
(* render *)

locals == <<input_str, in_header, before_content, after_content, metadata,
            text>>
call == <<fn, input_file, matches, test_args, io_env, out_before>>

\* the function returns `code` from where it stands
Return(code) ==
    /\ ret' = code
    /\ pc' = "done"

\* for name in matches.opt_strs("markdown-css") { css.push_str(format!(..)) }
RECURSIVE css_links(_)
css_links(names) ==
    IF names = <<>> THEN <<>>
    ELSE <<"<link rel=\"stylesheet\" type=\"text/css\" href=\"",
           Head(names), "\">\n">> \o css_links(Tail(names))

\* render is called: an input path, an output path and the matches; the
\* output path and the stylesheet links are computed
RenderCall ==
    /\ pc = "idle"
    /\ \E i \in RenderInputs, pg \in PlaygroundOpts, ob \in OutStates :
         /\ input_file' = i[1]
         /\ matches' = [playground |-> pg, in_header |-> i[2][1],
                        before_content |-> i[2][2],
                        after_content |-> i[2][3], css |-> i[3]]
         /\ css' = css_links(i[3])
         /\ out_before' = ob
         /\ out_file' = ob
    /\ fn' = "render"
    /\ pc' = "r_load"
    /\ UNCHANGED <<test_args, io_env, locals, ret, log, playground_krate, fs,
                   arg, result, playground, page, collector, harness>>

\* the input load whose failure is reported but does not end render
RenderLoadInput_no_return ==
    /\ pc = "r_load"
    /\ LET r == load_or_return("input", input_file, 1, 2)
       IN  /\ log' = log \o r.log
           /\ input_str' = r.val
           /\ ret' = IF r.returned THEN r.ret ELSE ret
           /\ pc' = "r_playground"
    /\ UNCHANGED <<call, out_file, playground_krate, in_header,
                   before_content, after_content, metadata, text, fs, arg,
                   result, css, playground, page, collector, harness>>

\* let input_str = load_or_return!(input, 1, 2);
RenderLoadInput ==
    /\ pc = "r_load"
    /\ LET r == load_or_return("input", input_file, 1, 2)
       IN  /\ log' = log \o r.log
           /\ IF r.returned
              THEN Return(r.ret) /\ UNCHANGED input_str
              ELSE /\ input_str' = r.val
                   /\ pc' = "r_playground"
                   /\ UNCHANGED ret
    /\ UNCHANGED <<call, out_file, playground_krate, in_header,
                   before_content, after_content, metadata, text, fs, arg,
                   result, css, playground, page, collector, harness>>

\* Option::unwrap_or
unwrap_or(opt, default) == IF opt.some THEN opt.val ELSE default

\* the playground step with the key set when no URL was supplied
RenderPlayground_is_none ==
    /\ pc = "r_playground"
    /\ IF ~matches.playground.some
       THEN /\ playground_krate' = "set"
            /\ log' = Append(log, Ev("playground_krate", "replace"))
       ELSE UNCHANGED <<playground_krate, log>>
    /\ playground' = unwrap_or(matches.playground, <<>>)
    /\ pc' = "r_fragments"
    /\ UNCHANGED <<call, out_file, locals, ret, fs, arg, result, css, page,
                   collector, harness>>

\* let playground = matches.opt_str("markdown-playground-url");
\* if playground.is_some() { markdown::playground_krate.replace(Some(None)); }
\* let playground = playground.unwrap_or("".to_string());
RenderPlayground ==
    /\ pc = "r_playground"
    /\ IF matches.playground.some
       THEN /\ playground_krate' = "set"
            /\ log' = Append(log, Ev("playground_krate", "replace"))
       ELSE UNCHANGED <<playground_krate, log>>
    /\ playground' = unwrap_or(matches.playground, <<>>)
    /\ pc' = "r_fragments"
    /\ UNCHANGED <<call, out_file, locals, ret, fs, arg, result, css, page,
                   collector, harness>>

\* let (in_header, before_content, after_content) = match (
\*     load_external_files(..in-header..),
\*     load_external_files(..before-content..),
\*     load_external_files(..after-content..)) {
\*         (Some(a), Some(b), Some(c)) => (a,b,c),  _ => return 3 };
\* The three components are evaluated in order, each to its end, before
\* the match looks at any of them.
RenderLoadFragments ==
    /\ pc = "r_fragments"
    /\ LET a == load_external_files(matches.in_header, fs)
           b == load_external_files(matches.before_content, fs)
           c == load_external_files(matches.after_content, fs)
       IN  /\ in_header' = a.val
           /\ before_content' = b.val
           /\ after_content' = c.val
           /\ log' = ((log \o a.log) \o b.log) \o c.log
           /\ IF a.val.some /\ b.val.some /\ c.val.some
              THEN pc' = "r_create" /\ UNCHANGED ret
              ELSE Return(3)
    /\ UNCHANGED <<call, out_file, playground_krate, input_str, metadata,
                   text, fs, arg, result, css, playground, page, collector, harness>>

\* File::create whose failure is reported but does not end render
RenderCreate_ignore_error ==
    /\ pc = "r_create"
    /\ \E ok \in BOOLEAN :
         IF ok
         THEN /\ io_env' = [io_env EXCEPT !.create = "ok"]
              /\ out_file' = [exists |-> TRUE, content |-> "empty"]
              /\ log' = Append(log, Ev("create", "output"))
         ELSE /\ io_env' = [io_env EXCEPT !.create = "err"]
              /\ log' = log \o <<Ev("create", "output"),
                                 Ev("stderr", "error opening")>>
              /\ UNCHANGED out_file
    /\ pc' = "r_metadata"
    /\ UNCHANGED <<fn, input_file, matches, test_args, out_before,
                   playground_krate, locals, ret, fs, arg, result, css, playground, page, collector, harness>>

\* the output file opened without truncating what it holds
RenderCreate_no_truncate ==
    /\ pc = "r_create"
    /\ \E ok \in BOOLEAN :
         IF ok
         THEN /\ io_env' = [io_env EXCEPT !.create = "ok"]
              /\ out_file' = IF out_file.exists THEN out_file
                             ELSE [exists |-> TRUE, content |-> "empty"]
              /\ log' = Append(log, Ev("create", "output"))
              /\ pc' = "r_metadata"
              /\ UNCHANGED ret
         ELSE /\ io_env' = [io_env EXCEPT !.create = "err"]
              /\ log' = log \o <<Ev("create", "output"),
                                 Ev("stderr", "error opening")>>
              /\ Return(4)
              /\ UNCHANGED out_file
    /\ UNCHANGED <<fn, input_file, matches, test_args, out_before,
                   playground_krate, locals, fs, arg, result, css, playground,
                   page, collector, harness>>

\* let mut out = match io::File::create(&output) { Err(e) => return 4, .. }
RenderCreate ==
    /\ pc = "r_create"
    /\ \E ok \in BOOLEAN :
         IF ok
         THEN /\ io_env' = [io_env EXCEPT !.create = "ok"]
              /\ out_file' = [exists |-> TRUE, content |-> "empty"]
              /\ log' = Append(log, Ev("create", "output"))
              /\ pc' = "r_metadata"
              /\ UNCHANGED ret
         ELSE /\ io_env' = [io_env EXCEPT !.create = "err"]
              /\ log' = log \o <<Ev("create", "output"),
                                 Ev("stderr", "error opening")>>
              /\ Return(4)
              /\ UNCHANGED out_file
    /\ UNCHANGED <<fn, input_file, matches, test_args, out_before,
                   playground_krate, locals, fs, arg, result, css, playground, page, collector, harness>>

\* the metadata step without the metadata.len() == 0 check
RenderMetadata_empty_title ==
    /\ pc = "r_metadata"
    /\ LET r == extract_leading_metadata(input_str)
       IN  /\ metadata' = r.metadata
           /\ text' = r.text
    /\ pc' = "r_reset"
    /\ UNCHANGED <<call, out_file, playground_krate, input_str, in_header,
                   before_content, after_content, ret, log, fs, arg, result, css, playground, page, collector, harness>>

\* the metadata step that also rejects an empty first directive
RenderMetadata_title_required ==
    /\ pc = "r_metadata"
    /\ LET r == extract_leading_metadata(input_str)
       IN  /\ metadata' = r.metadata
           /\ text' = r.text
           /\ IF Len(r.metadata) = 0 \/ r.metadata[1] = <<>>
              THEN /\ log' = Append(log, Ev("stderr", "invalid markdown file"))
                   /\ Return(5)
              ELSE /\ pc' = "r_reset"
                   /\ UNCHANGED <<ret, log>>
    /\ UNCHANGED <<call, out_file, playground_krate, input_str, in_header,
                   before_content, after_content, fs, arg, result, css,
                   playground, page, collector, harness>>

\* let (metadata, text) = extract_leading_metadata(..);
\* if metadata.len() == 0 { return 5 }
RenderMetadata ==
    /\ pc = "r_metadata"
    /\ LET r == extract_leading_metadata(input_str)
       IN  /\ metadata' = r.metadata
           /\ text' = r.text
           /\ IF Len(r.metadata) = 0
              THEN /\ log' = Append(log, Ev("stderr", "invalid markdown file"))
                   /\ Return(5)
              ELSE /\ pc' = "r_reset"
                   /\ UNCHANGED <<ret, log>>
    /\ UNCHANGED <<call, out_file, playground_krate, input_str, in_header,
                   before_content, after_content, fs, arg, result, css, playground, page, collector, harness>>

\* the step without the call of reset_headers
RenderResetHeaders_skip ==
    /\ pc = "r_reset"
    /\ pc' = "r_write"
    /\ UNCHANGED <<call, out_file, playground_krate, locals, ret, log, fs,
                   arg, result, css, playground, page, collector, harness>>

\* reset_headers();
RenderResetHeaders ==
    /\ pc = "r_reset"
    /\ log' = Append(log, Ev("reset_headers", ""))
    /\ pc' = "r_write"
    /\ UNCHANGED <<call, out_file, playground_krate, locals, ret, fs, arg,
                   result, css, playground, page, collector, harness>>

\* Escape(s): the HTML-escaped form of s
RECURSIVE Escape(_)
Escape(chars) ==
    IF chars = <<>> THEN <<>>
    ELSE LET c == Head(chars)
             e == CASE c = "<" -> <<"&", "l", "t", ";">>
                    [] c = ">" -> <<"&", "g", "t", ";">>
                    [] c = "&" -> <<"&", "a", "m", "p", ";">>
                    [] c = "'" -> <<"&", "#", "3", "9", ";">>
                    [] c = "\"" -> <<"&", "q", "u", "o", "t", ";">>
                    [] OTHER -> <<c>>
         IN  e \o Escape(Tail(chars))

\* MarkdownWithToc(text) as formatted by write!: the HTML that the renderer
\* makes of the text, with the playground key as it stands at that time
MarkdownWithToc(t, krate) == [markdown |-> t, playground_krate |-> krate]

\* let title = metadata.get(0).as_slice();
title == metadata[1]

\* the template with the title left as it is in the <h1> slot
Page_raw_h1 ==
    [title |-> Escape(title),
     css |-> css,
     in_header |-> in_header.val,
     before_content |-> before_content.val,
     h1 |-> title,
     text |-> MarkdownWithToc(text, playground_krate),
     playground |-> playground,
     after_content |-> after_content.val]

\* the template of write! with its arguments in their slots
Page ==
    [title |-> Escape(title),
     css |-> css,
     in_header |-> in_header.val,
     before_content |-> before_content.val,
     h1 |-> Escape(title),
     text |-> MarkdownWithToc(text, playground_krate),
     playground |-> playground,
     after_content |-> after_content.val]

\* the write step with 5 returned for a failed write
RenderWrite_code5 ==
    /\ pc = "r_write"
    /\ \E ok \in BOOLEAN, rendered \in BOOLEAN :
         IF ok
         THEN /\ rendered
              /\ io_env' = [io_env EXCEPT !.write = "ok"]
              /\ out_file' = [exists |-> TRUE, content |-> "page"]
              /\ page' = Page
              /\ log' = log \o <<Ev("MarkdownWithToc", "text"),
                                 Ev("write", "output")>>
              /\ Return(0)
         ELSE /\ io_env' = [io_env EXCEPT !.write = "err"]
              /\ out_file' = [exists |-> TRUE, content |-> "partial"]
              /\ UNCHANGED page
              /\ log' = (log \o (IF rendered
                                 THEN <<Ev("MarkdownWithToc", "text")>>
                                 ELSE <<>>))
                            \o <<Ev("write", "output"),
                                 Ev("stderr", "error writing")>>
              /\ Return(5)
    /\ UNCHANGED <<fn, input_file, matches, test_args, out_before,
                   playground_krate, locals, fs, arg, result, css, playground,
                   collector, harness>>

\* let err = write!(&mut out, ..); match err { Err(e) => 6, Ok(_) => 0 }
\* write! formats its arguments piece by piece into the file: a write that
\* fails leaves some part of the page in the file ("partial") and may have
\* failed before or after MarkdownWithToc(text) was formatted.
RenderWrite ==
    /\ pc = "r_write"
    /\ \E ok \in BOOLEAN, rendered \in BOOLEAN :
         IF ok
         THEN /\ rendered
              /\ io_env' = [io_env EXCEPT !.write = "ok"]
              /\ out_file' = [exists |-> TRUE, content |-> "page"]
              /\ page' = Page
              /\ log' = log \o <<Ev("MarkdownWithToc", "text"),
                                 Ev("write", "output")>>
              /\ Return(0)
         ELSE /\ io_env' = [io_env EXCEPT !.write = "err"]
              /\ out_file' = [exists |-> TRUE, content |-> "partial"]
              /\ UNCHANGED page
              /\ log' = (log \o (IF rendered
                                 THEN <<Ev("MarkdownWithToc", "text")>>
                                 ELSE <<>>))
                            \o <<Ev("write", "output"),
                                 Ev("stderr", "error writing")>>
              /\ Return(6)
    /\ UNCHANGED <<fn, input_file, matches, test_args, out_before,
                   playground_krate, locals, fs, arg, result, css, playground,
                   collector, harness>>

----------------------------------------------------------------------------
(* test *)

\* test is called: an input path and the caller's test arguments
TestCall ==
    /\ pc = "idle"
    /\ \E i \in TestInputs :
         /\ input_file' = i[1]
         /\ test_args' = i[2]
    /\ fn' = "test"
    /\ pc' = "t_load"
    /\ UNCHANGED <<matches, io_env, out_before, out_file, locals, ret, log,
                   playground_krate, fs, arg, result, css, playground, page, collector, harness>>

\* let input_str = load_or_return!(input, 1, 2);
TestLoadInput ==
    /\ pc = "t_load"
    /\ LET r == load_or_return("input", input_file, 1, 2)
       IN  /\ log' = log \o r.log
           /\ IF r.returned
              THEN Return(r.ret) /\ UNCHANGED input_str
              ELSE /\ input_str' = r.val
                   /\ pc' = "t_collect"
                   /\ UNCHANGED ret
    /\ UNCHANGED <<call, out_file, playground_krate, in_header,
                   before_content, after_content, metadata, text, fs, arg,
                   result, css, playground, page, collector, harness>>

\* Collector::new(..); find_testable_code(input_str.as_slice(), &mut collector);
\* What find_testable_code pushes into collector.tests is the extractor's
\* choice: any bounded sequence of test cases.
TestCollect ==
    /\ pc = "t_collect"
    /\ \E tests \in TestCaseSeqs : collector' = tests
    /\ log' = Append(log, Ev("find_testable_code", "input_str"))
    /\ pc' = "t_main"
    /\ UNCHANGED <<call, out_file, playground_krate, locals, ret, fs, arg,
                   result, css, playground, page, harness>>

\* x put at the end of v
unshift_at_end(v, x) == v \o <<x>>

\* Vec::unshift: x put in front of v
unshift(v, x) == <<x>> \o v

\* test_args.unshift("rustdoctest"); testing::test_main(..); 0
\* test with the harness's report turned into its own return value
TestMain_report_code ==
    /\ pc = "t_main"
    /\ test_args' = unshift(test_args, "rustdoctest")
    /\ \E report \in {"passed", "failed"} :
         /\ harness' = [called |-> TRUE, args |-> test_args',
                        tests |-> collector, report |-> report]
         /\ Return(IF report = "failed" THEN 101 ELSE 0)
    /\ log' = Append(log, Ev("test_main", "collector.tests"))
    /\ UNCHANGED <<fn, input_file, matches, io_env, out_before, out_file,
                   playground_krate, locals, fs, arg, result, css, playground,
                   page, collector>>

\* The harness runs the tests and reports on its own channel: passed or
\* failed.
TestMain ==
    /\ pc = "t_main"
    /\ test_args' = unshift(test_args, "rustdoctest")
    /\ \E report \in {"passed", "failed"} :
         harness' = [called |-> TRUE, args |-> test_args',
                     tests |-> collector, report |-> report]
    /\ log' = Append(log, Ev("test_main", "collector.tests"))
    /\ Return(0)
    /\ UNCHANGED <<fn, input_file, matches, io_env, out_before, out_file,
                   playground_krate, locals, fs, arg, result, css, playground,
                   page, collector>>

----------------------------------------------------------------------------
(* The process: invocations of render and test, one after the other *)

\* the return to the caller with the playground key cleared
Finish_reset_key ==
    /\ pc = "done"
    /\ pc' = "idle"
    /\ fn' = "none"
    /\ input_file' = NoFile
    /\ matches' = NoMatches
    /\ test_args' = <<>>
    /\ io_env' = NoEnv
    /\ out_before' = NoOut
    /\ out_file' = NoOut
    /\ input_str' = <<>>
    /\ in_header' = None
    /\ before_content' = None
    /\ after_content' = None
    /\ metadata' = <<>>
    /\ text' = <<>>
    /\ css' = <<>>
    /\ playground' = <<>>
    /\ page' = NoPage
    /\ collector' = <<>>
    /\ harness' = NoHarness
    /\ ret' = -1
    /\ log' = <<>>
    /\ playground_krate' = "unset"
    /\ UNCHANGED <<fs, arg, result>>

\* the invocation has returned to its caller; only the process-wide key
\* outlives it
Finish ==
    /\ pc = "done"
    /\ pc' = "idle"
    /\ fn' = "none"
    /\ input_file' = NoFile
    /\ matches' = NoMatches
    /\ test_args' = <<>>
    /\ io_env' = NoEnv
    /\ out_before' = NoOut
    /\ out_file' = NoOut
    /\ input_str' = <<>>
    /\ in_header' = None
    /\ before_content' = None
    /\ after_content' = None
    /\ metadata' = <<>>
    /\ text' = <<>>
    /\ css' = <<>>
    /\ playground' = <<>>
    /\ page' = NoPage
    /\ collector' = <<>>
    /\ harness' = NoHarness
    /\ ret' = -1
    /\ log' = <<>>
    /\ UNCHANGED <<playground_krate, fs, arg, result>>

Init ==
    /\ pc = "idle"
    /\ playground_krate = "unset"
    /\ fs = DefaultFS
    /\ arg = <<>>
    /\ result = NoSplit
    /\ AtRest

Next ==
    \/ RenderCall
    \/ RenderLoadInput
    \/ RenderPlayground
    \/ RenderLoadFragments
    \/ RenderCreate
    \/ RenderMetadata
    \/ RenderResetHeaders
    \/ RenderWrite
    \/ TestCall
    \/ TestLoadInput
    \/ TestCollect
    \/ TestMain
    \/ Finish

Spec == Init /\ [][Next]_vars

----------------------------------------------------------------------------
(* Properties of extract_leading_metadata, stated on the text itself *)

Min(S) == CHOOSE x \in S : \A y \in S : x <= y

\* positions of s at which a line starts
LineStarts(s) == {i \in 1..Len(s) : i = 1 \/ s[i - 1] = "\n"}

\* position of the first line that does not begin with "%", Len(s) + 1 if none
FirstBodyStart(s) ==
    LET B == {i \in LineStarts(s) : s[i] # "%"}
    IN  IF B = {} THEN Len(s) + 1 ELSE Min(B)

\* the text of s from position p to its end
SuffixAt(s, p) == [k \in 1..(Len(s) - p + 1) |-> s[p + k - 1]]

\* one past the last character of the line that starts at i
LineEnd(s, i) == Min({j \in i..Len(s) : s[j] = "\n"} \cup {Len(s) + 1})

\* the line starting at i without its first character and the whitespace
\* that follows it
Directive(s, i) ==
    LET e == LineEnd(s, i)
        b == Min({j \in (i + 1)..e : j = e \/ ~IsWhitespace(s[j])})
    IN  [k \in 1..(e - b) |-> s[b + k - 1]]

SplitDone == pc = "split_done"

\* C6: the body returned by extract_leading_metadata is the suffix of the
\* text that starts at the first byte of the first line not beginning with
\* "%", and is empty when there is no such line.
C6_BodyIsSuffixAtFirstBodyLine ==
    SplitDone => result.text = SuffixAt(arg, FirstBodyStart(arg))

\* a split with directives, a body that keeps an empty line and a final "\n"
C6_Witness ==
    /\ SplitDone
    /\ Len(result.metadata) > 0
    /\ Len(result.text) > 1
    /\ result.text[1] = "\n"
    /\ arg[Len(arg)] = "\n"

\* C7: when no line of the text starts with "%", the metadata is empty and
\* the body is the whole text.
C7_NoDirectiveKeepsWholeText ==
    (SplitDone /\ \A i \in LineStarts(arg) : arg[i] # "%")
        => (result.metadata = <<>> /\ result.text = arg)

\* a split of a text that begins with an empty line and has no "%" line
C7_Witness ==
    /\ SplitDone
    /\ Len(arg) > 1
    /\ arg[1] = "\n"
    /\ \A i \in LineStarts(arg) : arg[i] # "%"
    /\ result.text = arg

\* C8: when every line of the text starts with "%", the body is empty and
\* there is one directive per line.
C8_AllDirectivesEmptyBody ==
    (SplitDone /\ \A i \in LineStarts(arg) : arg[i] = "%")
        => (/\ result.text = <<>>
            /\ Len(result.metadata) = Cardinality(LineStarts(arg)))

\* a split of a text of several lines, all starting with "%"
C8_Witness ==
    /\ SplitDone
    /\ Cardinality(LineStarts(arg)) > 1
    /\ \A i \in LineStarts(arg) : arg[i] = "%"
    /\ Len(result.metadata) > 1

\* C9: the metadata is the leading run of lines beginning with "%", in
\* order, each without its "%" and the whitespace after it; a "%" line
\* after the first other line is no directive and is part of the body.
C9_MetadataIsLeadingRun ==
    SplitDone =>
        LET p == FirstBodyStart(arg)
            D == {i \in LineStarts(arg) : i < p}
        IN  /\ Len(result.metadata) = Cardinality(D)
            /\ \A i \in D :
                 result.metadata[Cardinality({j \in D : j <= i})]
                     = Directive(arg, i)
            /\ \A i \in LineStarts(arg) :
                 (i > p /\ arg[i] = "%")
                     => /\ Len(result.text) = Len(arg) - p + 1
                        /\ result.text[i - p + 1] = "%"

\* a split with a directive whose "%" is followed by whitespace, and a
\* "%" line after the first line of the body
C9_Witness ==
    /\ SplitDone
    /\ Len(result.metadata) > 0
    /\ Len(arg) > 1
    /\ arg[2] = " "
    /\ \E i \in LineStarts(arg) : i > FirstBodyStart(arg) /\ arg[i] = "%"

----------------------------------------------------------------------------
(* Properties of load_external_files *)

LoadDone == pc = "load_done"

\* the contents of the named files, each followed by one newline
RECURSIVE Joined(_, _)
Joined(names, files) ==
    IF names = <<>> THEN <<>>
    ELSE (Joined(SubSeq(names, 1, Len(names) - 1), files)
              \o files[names[Len(names)]].data) \o <<"\n">>

\* C10: load_external_files returns None exactly when a named file is
\* unreadable or not UTF-8, and otherwise Some of the files' contents in
\* list order, each followed by one newline: Some("") for the empty list and
\* Some("abc\n") for one file holding "abc".
C10_LoadExternalFiles ==
    LoadDone =>
        LET failing == \E i \in 1..Len(arg) : fs[arg[i]].kind # "text"
        IN  /\ (result.val = None) <=> failing
            /\ ~failing => result.val = Some(Joined(arg, fs))
            /\ arg = <<>> => result.val = Some(<<>>)
            /\ (Len(arg) = 1 /\ fs[arg[1]] = TextFile(<<"a", "b", "c">>))
                   => result.val = Some(<<"a", "b", "c", "\n">>)

\* two different files loaded, the second one ending in a newline itself
C10_Witness ==
    /\ LoadDone
    /\ Len(arg) = 2
    /\ fs[arg[1]] = TextFile(<<"a", "b", "c">>)
    /\ fs[arg[2]] = TextFile(<<"a", "\n">>)
    /\ result.val = Some(<<"a", "b", "c", "\n", "a", "\n", "\n">>)

----------------------------------------------------------------------------
(* Properties of render and test *)

RenderDone == pc = "done" /\ fn = "render"

\* the names in the three fragment lists of the invocation
NamedFragments ==
    {matches.in_header[i] : i \in 1..Len(matches.in_header)}
        \cup {matches.before_content[i] : i \in 1..Len(matches.before_content)}
        \cup {matches.after_content[i] : i \in 1..Len(matches.after_content)}

\* some named fragment file is unreadable or not UTF-8
FragmentFails == \E n \in NamedFragments : fs[n].kind # "text"

\* the input document is empty or its first line does not begin with "%"
NoDirective == input_file.data = <<>> \/ input_file.data[1] # "%"

Logged(e) == \E i \in 1..Len(log) : log[i] = e

\* the code of the first failing step, in the order of the steps
FirstFailure ==
    IF input_file.kind = "unreadable" THEN 1
    ELSE IF input_file.kind = "not_utf8" THEN 2
    ELSE IF FragmentFails THEN 3
    ELSE IF io_env.create = "err" THEN 4
    ELSE IF NoDirective THEN 5
    ELSE IF io_env.write = "err" THEN 6
    ELSE 0

\* C1: render returns the code of the first step that fails, in the order
\* load input (1 unreadable, 2 not UTF-8), load fragments (3), create the
\* output file (4), metadata check (5), write (6), and 0 exactly when no
\* step fails.
C1_RenderReturnsFirstFailure == RenderDone => ret = FirstFailure

\* a render in which two steps would fail and the earlier one is reported
C1_Witness ==
    /\ RenderDone
    /\ input_file.kind = "text"
    /\ FragmentFails
    /\ NoDirective
    /\ ret = 3

\* what ended the invocation, read from its effects
Outcome ==
    LET last == IF log = <<>> THEN Ev("", "") ELSE log[Len(log)]
    IN  IF last = Ev("stderr", "error writing") THEN "WriteFailed"
        ELSE IF last = Ev("stderr", "invalid markdown file")
        THEN "MissingMetadata"
        ELSE IF last = Ev("stderr", "error opening") THEN "OutputUnwritable"
        ELSE IF log = <<Ev("read", "input"), Ev("stderr", "error reading")>>
        THEN "InputUnreadable"
        ELSE IF log = <<Ev("read", "input"), Ev("stderr", "not UTF-8")>>
        THEN "InputNotText"
        ELSE IF \E i \in 1..Len(log) : log[i][1] = "stderr"
        THEN "FragmentLoadFailed"
        ELSE "Success"

Outcomes == {"Success", "InputUnreadable", "InputNotText",
             "FragmentLoadFailed", "OutputUnwritable", "WriteFailed",
             "MissingMetadata"}

\* the codes in the enumerated order of the outcomes
EnumeratedCode ==
    [o \in Outcomes |->
        CASE o = "Success" -> 0
          [] o = "InputUnreadable" -> 1
          [] o = "InputNotText" -> 2
          [] o = "FragmentLoadFailed" -> 3
          [] o = "OutputUnwritable" -> 4
          [] o = "WriteFailed" -> 5
          [] o = "MissingMetadata" -> 6]

\* the codes with those of the last two outcomes exchanged
ExitCode ==
    [o \in Outcomes |->
        CASE o = "WriteFailed" -> 6
          [] o = "MissingMetadata" -> 5
          [] OTHER -> EnumeratedCode[o]]

\* C2 as stated: the outcomes map to the codes 0..6 in the enumerated order,
\* so a failed write returns 5 and a missing directive returns 6.
C2_EnumeratedOrder == RenderDone => ret = EnumeratedCode[Outcome]

\* C2 as amended: the outcomes map one-to-one to the codes 0..6 with
\* MissingMetadata returning 5 and WriteFailed returning 6.
C2_ExitCodes == RenderDone => ret = ExitCode[Outcome]

\* a render whose write failed after the page was assembled
C2_Witness ==
    /\ RenderDone
    /\ Outcome = "WriteFailed"
    /\ io_env.write = "err"
    /\ ret = 6

\* C3: when the input loads and a file named in one of the three fragment
\* lists fails to load, render returns 3 and the output file is as it was
\* before the call: not created, not modified.
C3_FragmentFailureLeavesOutput ==
    (RenderDone /\ input_file.kind = "text" /\ FragmentFails)
        => /\ ret = 3
           /\ out_file = out_before
           /\ ~Logged(Ev("create", "output"))
           /\ ~Logged(Ev("write", "output"))

\* a render over an existing output file, with a list of one valid and one
\* nonexistent fragment file
C3_Witness ==
    /\ RenderDone
    /\ input_file.kind = "text"
    /\ matches.before_content = <<"frag.html", "missing.html">>
    /\ out_before.exists
    /\ ret = 3

\* C4: render and test return 1 exactly when the input file cannot be
\* opened or read and 2 exactly when its bytes are not valid UTF-8.
C4_InputFailureCodes ==
    pc = "done" =>
        /\ ret = 1 <=> input_file.kind = "unreadable"
        /\ ret = 2 <=> input_file.kind = "not_utf8"

\* a test invocation on an input that is not UTF-8
C4_Witness ==
    /\ pc = "done"
    /\ fn = "test"
    /\ input_file.kind = "not_utf8"
    /\ ret = 2

\* C5: when the input loads, the fragments load and the output file opens,
\* a document that is empty or whose first line does not begin with "%" has
\* an empty metadata block and render returns 5 without writing the page.
C5_NoDirectiveReturns5 ==
    (RenderDone /\ input_file.kind = "text" /\ ~FragmentFails
        /\ io_env.create = "ok")
        => /\ (metadata = <<>>) <=> NoDirective
           /\ NoDirective
                => /\ ret = 5
                   /\ out_file = [exists |-> TRUE, content |-> "empty"]
                   /\ ~Logged(Ev("write", "output"))
                   /\ ~Logged(Ev("MarkdownWithToc", "text"))

\* a render of the empty document that got as far as the metadata check
C5_Witness ==
    /\ RenderDone
    /\ input_file = TextFile(<<>>)
    /\ io_env.create = "ok"
    /\ ret = 5

----------------------------------------------------------------------------
(* Properties of the playground key, the page and the test harness *)

\* how many events of the operation op the invocation has logged
Count(op) == Cardinality({i \in 1..Len(log) : log[i][1] = op})

\* every event of operation a is logged before every event of operation b
Precedes(a, b) ==
    \A i, j \in 1..Len(log) : (log[i][1] = a /\ log[j][1] = b) => i < j

\* render has dealt with the playground URL
PastPlayground ==
    /\ fn = "render"
    /\ input_file.kind = "text"
    /\ pc \in {"r_fragments", "r_create", "r_metadata", "r_reset", "r_write",
               "done"}

\* C11 as stated: without a playground URL the empty string goes into the
\* slot and the key is set by this invocation; with a URL the key is not
\* set.
C11_KeySetWithoutUrl ==
    PastPlayground =>
        /\ ~matches.playground.some
               => playground = <<>> /\ Count("playground_krate") = 1
        /\ matches.playground.some => Count("playground_krate") = 0

\* C11: with a playground URL the key is set by this invocation, before the
\* body is rendered, and the URL goes into the slot as it is; without a URL
\* the empty string goes into the slot and this invocation does not set the
\* key.
C11_KeySetWithUrl ==
    PastPlayground =>
        /\ matches.playground.some
               => /\ playground = matches.playground.val
                  /\ Count("playground_krate") = 1
                  /\ playground_krate = "set"
                  /\ Precedes("playground_krate", "MarkdownWithToc")
                  /\ ret = 0 => page.text.playground_krate = "set"
        /\ ~matches.playground.some
               => /\ playground = <<>>
                  /\ Count("playground_krate") = 0

\* a page written for a caller that supplied a playground URL
C11_Witness ==
    /\ RenderDone
    /\ ret = 0
    /\ matches.playground = Some(<<"u", "&">>)
    /\ page.playground = <<"u", "&">>
    /\ playground_krate = "set"

\* the <link> elements of the stylesheet names, in order
RECURSIVE Links(_)
Links(names) ==
    IF names = <<>> THEN <<>>
    ELSE <<"<link rel=\"stylesheet\" type=\"text/css\" href=\"",
           Head(names), "\">\n">> \o Links(Tail(names))

Chars(s) == {s[i] : i \in 1..Len(s)}

\* C12: in the written page the title stands HTML-escaped in <title> and in
\* <h1 class="title">, while the stylesheet links, the three fragments, the
\* rendered body and the playground URL stand in their slots as they are.
C12_OnlyTitleEscaped ==
    (RenderDone /\ ret = 0) =>
        /\ page.title = Escape(metadata[1])
        /\ page.h1 = Escape(metadata[1])
        /\ "<" \notin Chars(page.title) \cup Chars(page.h1)
        /\ page.css = Links(matches.css)
        /\ page.in_header = Joined(matches.in_header, fs)
        /\ page.before_content = Joined(matches.before_content, fs)
        /\ page.after_content = Joined(matches.after_content, fs)
        /\ page.text = MarkdownWithToc(text, playground_krate)
        /\ page.playground
               = (IF matches.playground.some THEN matches.playground.val
                  ELSE <<>>)

\* a page whose title holds "<" and whose header fragment holds "<" too
C12_Witness ==
    /\ RenderDone
    /\ ret = 0
    /\ metadata[1] = <<"<">>
    /\ page.h1 = <<"&", "l", "t", ";">>
    /\ page.in_header = <<"<", "b", ">", "\n">>

TestDone == pc = "done" /\ fn = "test"

\* C13: test returns 0, 1 or 2 only; when the input loads, the extractor
\* runs once, the harness is called exactly once with the collected tests
\* in their order, and test returns 0 whatever the harness reports.
C13_TestCallsHarnessOnce ==
    TestDone =>
        /\ ret \in {0, 1, 2}
        /\ input_file.kind = "text"
               => /\ ret = 0
                  /\ log = <<Ev("read", "input"),
                             Ev("find_testable_code", "input_str"),
                             Ev("test_main", "collector.tests")>>
                  /\ harness.called
                  /\ harness.tests = collector
                  /\ harness.report \in {"passed", "failed"}

\* two tests collected, handed over in order, and reported as failed
C13_Witness ==
    /\ TestDone
    /\ harness.tests = <<"t2", "t1">>
    /\ harness.report = "failed"
    /\ ret = 0

\* C14: the harness receives "rustdoctest" followed by the caller's
\* arguments in their order, one argument more than the caller supplied, and
\* test does not change the arguments before that.
C14_HarnessArgs ==
    /\ [][(pc \in {"t_load", "t_collect"} /\ pc' # "done")
              => test_args' = test_args]_vars
    /\ [][(pc = "t_main" /\ pc' = "done")
              => /\ Len(harness'.args) = Len(test_args) + 1
                 /\ harness'.args[1] = "rustdoctest"
                 /\ \A i \in 1..Len(test_args) :
                        harness'.args[i + 1] = test_args[i]]_vars

\* the harness called with two different caller arguments
C14_Witness ==
    /\ TestDone
    /\ harness.called
    /\ Len(harness.args) = 3
    /\ harness.args[1] = "rustdoctest"
    /\ harness.args[2] # harness.args[3]

\* the reads that loading one fragment list makes: up to and including its
\* first failing file
ReadsOf(names) ==
    LET F == {i \in 1..Len(names) : fs[names[i]].kind # "text"}
        n == IF F = {} THEN Len(names) ELSE Min(F)
    IN  [i \in 1..n |-> Ev("read", names[i])]

ListFails(names) == \E i \in 1..Len(names) : fs[names[i]].kind # "text"

FailingLists ==
    {l \in {"in_header", "before_content", "after_content"} :
        ListFails(matches[l])}

IsFragmentRead(e) == e[1] = "read" /\ e[2] # "input"

\* C15 as stated: once a step of render has failed, nothing further is read,
\* opened or written, and the invocation emits exactly one diagnostic.
C15_OneDiagnosticThenStop ==
    (RenderDone /\ ret # 0)
        => /\ Count("stderr") = 1
           /\ log[Len(log)][1] = "stderr"

\* C15: a failure of the input load, of the creation of the output file, of
\* the metadata check or of the write ends render at once with exactly one
\* diagnostic.  A failing fragment file ends the loading of its own list
\* only: the other lists are still loaded, each with a diagnostic of its own
\* if it fails, before render returns 3 without creating the output file.
C15_FailureEndsRender ==
    RenderDone =>
        /\ ret = 0 => Count("stderr") = 0
        /\ ret \in {1, 2, 4, 5, 6}
               => /\ Count("stderr") = 1
                  /\ log[Len(log)][1] = "stderr"
        /\ ret = 3
               => /\ SelectSeq(log, IsFragmentRead)
                         = (ReadsOf(matches.in_header)
                                \o ReadsOf(matches.before_content))
                               \o ReadsOf(matches.after_content)
                  /\ Count("stderr") = Cardinality(FailingLists)
                  /\ Count("stderr") \in 1..3
                  /\ \A i \in 1..Len(log) :
                         log[i][1] = "stderr"
                             => /\ i > 1
                                /\ IsFragmentRead(log[i - 1])
                                /\ fs[log[i - 1][2]].kind # "text"
                  /\ Count("create") = 0
                  /\ Count("write") = 0
                  /\ out_file = out_before

\* the first fragment list fails, the second is read all the same and fails
\* too
C15_Witness ==
    /\ RenderDone
    /\ ret = 3
    /\ matches.in_header = <<"missing.html">>
    /\ matches.before_content = <<"binary.html">>
    /\ Count("stderr") = 2
    /\ Logged(Ev("read", "binary.html"))

\* C16: the playground key starts unset, once set it is never unset again,
\* it changes only in the playground step of render, and an invocation
\* writes it at most once and before it renders the body.
C16_KeyLifecycle ==
    /\ playground_krate = "unset"
    /\ [][/\ playground_krate = "set" => playground_krate' = "set"
          /\ playground_krate' # playground_krate => pc = "r_playground"]_vars
    /\ [](/\ Count("playground_krate") <= 1
          /\ Precedes("playground_krate", "MarkdownWithToc"))

\* a page rendered without a URL while the key is still set from an earlier
\* invocation
C16_Witness ==
    /\ RenderDone
    /\ ret = 0
    /\ ~matches.playground.some
    /\ playground_krate = "set"
    /\ page.text.playground_krate = "set"

\* C17: when the input is unreadable or not UTF-8 the invocation does
\* nothing but read it and report: render reads no fragment, leaves the key
\* and the output file alone and neither resets the headers nor renders;
\* test calls neither the extractor nor the harness.
C17_InputFailureStopsAll ==
    (pc = "done" /\ input_file.kind # "text") =>
        /\ Len(log) = 2
        /\ log[1] = Ev("read", "input")
        /\ log[2][1] = "stderr"
        /\ ret \in {1, 2}
        /\ out_file = out_before
        /\ page = NoPage
        /\ in_header = None /\ before_content = None /\ after_content = None
        /\ collector = <<>>
        /\ harness = NoHarness

\* an unreadable input with everything else in place for a render
C17_Witness ==
    /\ RenderDone
    /\ input_file.kind = "unreadable"
    /\ matches.playground.some
    /\ matches.in_header = <<"frag.html">>
    /\ out_before.exists
    /\ ret = 1

\* C18: render resets the header counters exactly once when the metadata
\* check passes, before it renders the body, and not at all when it returns
\* 1, 2, 3, 4 or 5.
C18_ResetHeadersOnce ==
    RenderDone =>
        /\ ret \in {0, 6} => Count("reset_headers") = 1
        /\ ret \in 1..5 => Count("reset_headers") = 0
        /\ Precedes("reset_headers", "MarkdownWithToc")

\* a written page: reset first, then the body
C18_Witness ==
    /\ RenderDone
    /\ ret = 0
    /\ Count("reset_headers") = 1
    /\ Count("MarkdownWithToc") = 1

\* C19: the output file is created or truncated before the metadata check:
\* a render that returns 5 or 6 has already replaced what the file held, and
\* only renders that return 1, 2, 3 or 4 leave it as it was.
C19_OutputReplacedBeforeCheck ==
    RenderDone =>
        /\ ret \in {1, 2, 3, 4} => out_file = out_before
        /\ ret \in {0, 5, 6}
               => /\ out_file # out_before
                  /\ out_file.exists
                  /\ out_file.content # "old"
                  /\ Count("create") = 1
        /\ ret = 5 => /\ out_file.content = "empty"
                      /\ Precedes("create", "stderr")

\* an existing output file emptied by a render that returns 5
C19_Witness ==
    /\ RenderDone
    /\ ret = 5
    /\ out_before = [exists |-> TRUE, content |-> "old"]
    /\ out_file = [exists |-> TRUE, content |-> "empty"]

\* the first line of the document is "%" alone or "%" and whitespace
BlankDirective ==
    /\ input_file.data # <<>>
    /\ input_file.data[1] = "%"
    /\ \A j \in 2..(LineEnd(input_file.data, 1) - 1) :
           IsWhitespace(input_file.data[j])

\* C20: a first line that is "%" alone or "%" followed by whitespace is a
\* directive with the empty title: render does not return 5, and when the
\* other steps succeed it returns 0 with the empty string in <title> and
\* <h1>.
C20_BlankDirectiveAccepted ==
    (RenderDone /\ input_file.kind = "text" /\ BlankDirective
        /\ ~FragmentFails /\ io_env.create = "ok")
        => /\ ret # 5
           /\ metadata # <<>>
           /\ metadata[1] = <<>>
           /\ io_env.write = "ok"
                  => /\ ret = 0
                     /\ page.title = <<>>
                     /\ page.h1 = <<>>

\* the document "% " rendered to a page
C20_Witness ==
    /\ RenderDone
    /\ input_file = TextFile(<<"%", " ">>)
    /\ ret = 0
    /\ page.h1 = <<>>

====
